---- MODULE Spec2Model ----
(***************************************************************************)
(* Model of src/tomabechi_algorithm.py: Tomabechi's quasi-destructive      *)
(* graph unification.  The heap of DGNode objects is a sequence of records *)
(* indexed by node identity; a top-level unify call is one action that     *)
(* runs unify_core (recursion included) and copy_with_comp_arcs (Spec).    *)
(* SpecT is the class UnificationCounter used by several threads, one      *)
(* action per statement of __new__ and next_generation.                    *)
(***************************************************************************)
EXTENDS Integers, Sequences, FiniteSets, TLC

VARIABLES heap, counter, structure_sharing, shared_structures, scn, calls

\* the class UnificationCounter under several threads: the objects created
\* (objs[i] is the counter field of the i-th), the class attribute _instance,
\* the class lock, and every thread's position and locals
VARIABLES objs, instance, lock, pc, self, tmp, got, rets, ops

uvars == <<heap, counter, structure_sharing, shared_structures, scn, calls>>

tvars == <<objs, instance, lock, pc, self, tmp, got, rets, ops>>

vars == <<uvars, tvars>>

(* ---------------------------------------------------------------- bounds *)
\* number of top-level unify calls explored in one behaviour
MaxCalls == 2
\* depth at which the interpreter's recursion limit is taken to be hit
MaxDepth == 6
\* threads that use UnificationCounter, and calls each of them makes
NThreads == 2
MaxOps == 3

(* ------------------------------------------------------------ data model *)
Null == 0

LEAF == "leaf"
COMPLEX == "complex"

Arc(label, value) == [label |-> label, value |-> value]

DGNode(node_type, arc_list, name) ==
    [node_type |-> node_type, arc_list |-> arc_list, comp_arc_list |-> <<>>,
     forward |-> Null, copy |-> Null, generation |-> 0, name |-> name]

create_leaf_node(name) == DGNode(LEAF, <<>>, name)

create_complex_node(arcs) == DGNode(COMPLEX, arcs, "")

CounterInit == 10

(* -------------------------------------------------------- input graphs   *)
(* Each scenario is a heap of input nodes, acyclic through its arcs and    *)
(* with unique labels inside every arc list.  A node is named by its index.*)
Scenarios ==
    << \* 1: leaves and flat complex nodes (the demonstration's shapes)
       << create_leaf_node("A"), create_leaf_node("A"), create_leaf_node("B"),
          create_complex_node(<<Arc("f", 1), Arc("g", 3)>>),
          create_complex_node(<<Arc("h", 3), Arc("f", 2)>>),
          create_complex_node(<<Arc("f", 3)>>) >>,
       \* 2: nested complex children under a shared label
       << create_leaf_node("A"), create_leaf_node("B"),
          create_complex_node(<<Arc("h", 1)>>),
          create_complex_node(<<Arc("k", 2)>>),
          create_complex_node(<<Arc("f", 3)>>),
          create_complex_node(<<Arc("f", 4), Arc("g", 2)>>) >>,
       \* 3: two roots whose children can be forwarded to the other root
       << create_leaf_node("A"), create_leaf_node("A"),
          create_complex_node(<<Arc("f", 1)>>),
          create_complex_node(<<Arc("f", 2)>>),
          create_complex_node(<<Arc("f", 1), Arc("g", 2)>>),
          create_complex_node(<<Arc("f", 4), Arc("g", 3)>>) >>,
       \* 4: a root that is itself a child of the other root
       << create_leaf_node("A"),
          create_complex_node(<<Arc("k", 1)>>),
          create_complex_node(<<Arc("f", 1), Arc("g", 1)>>),
          create_complex_node(<<Arc("f", 3), Arc("g", 2), Arc("k", 1)>>) >>,
       \* 5: a child shared under two labels, arcs in different orders
       << create_leaf_node("A"), create_leaf_node("B"),
          create_complex_node(<<>>),
          create_complex_node(<<Arc("g", 1), Arc("f", 1)>>),
          create_complex_node(<<Arc("f", 2), Arc("g", 3)>>) >>,
       \* 6: a name clash below a shared label that is unified after another
       << create_leaf_node("A"), create_leaf_node("B"),
          create_complex_node(<<>>), create_complex_node(<<>>),
          create_complex_node(<<Arc("f", 3), Arc("g", 1)>>),
          create_complex_node(<<Arc("f", 4), Arc("g", 2), Arc("h", 5)>>),
          create_complex_node(<<Arc("h", 6)>>) >>,
       \* 7: as 3, with an empty complex node below one root
       << create_leaf_node("A"), create_leaf_node("B"),
          create_complex_node(<<>>),
          create_complex_node(<<Arc("g", 3), Arc("f", 1)>>),
          create_complex_node(<<Arc("f", 2), Arc("g", 2)>>),
          create_complex_node(<<Arc("f", 1), Arc("g", 2)>>),
          create_complex_node(<<Arc("f", 5), Arc("g", 4)>>) >> >>

NScenarios == Len(Scenarios)

(* ------------------------------------------------------------- helpers   *)
Labels(arcs) == [i \in 1..Len(arcs) |-> arcs[i].label]

LabelSet(arcs) == {arcs[i].label : i \in 1..Len(arcs)}

SeqSet(s) == {s[i] : i \in 1..Len(s)}

\* the element of a one-element set: {F(v) : v \in {e}} computes e once and
\* hands its value to F
Only(S) == CHOOSE v \in S : TRUE

RECURSIVE SelectArcs(_, _, _)
\* the arcs of `arcs` whose membership in `labels` equals `keep`, in order
SelectArcs(arcs, labels, keep) ==
    IF arcs = <<>> THEN <<>>
    ELSE LET rest == SelectArcs(Tail(arcs), labels, keep)
         IN IF (Head(arcs).label \in labels) = keep
            THEN <<Head(arcs)>> \o rest ELSE rest

is_leaf_node(h, n) == h[n].node_type = LEAF

is_complex_node(h, n) == h[n].node_type = COMPLEX

RECURSIVE find_arc(_, _, _)
\* index of the first arc of arc_list (from position i) with the label, or 0
find_arc(label, arc_list, i) ==
    IF i > Len(arc_list) THEN 0
    ELSE IF arc_list[i].label = label THEN i
    ELSE find_arc(label, arc_list, i + 1)

intersect_arcs(arcs1, arcs2) == SelectArcs(arcs2, LabelSet(arcs1), TRUE)

\* complement_arcs with its two lists taken the wrong way round
complement_arcs_swapped(arcs1, arcs2) == SelectArcs(arcs2, LabelSet(arcs1), FALSE)

complement_arcs(arcs1, arcs2) == SelectArcs(arcs1, LabelSet(arcs2), FALSE)

(* ------------------------------------------------ DGNode.__eq__ (dataclass) *)
RECURSIVE dg_eq(_, _, _, _)
\* the generated field-by-field comparison; arcs compare by label only, a
\* field pair that is the same object compares equal without a call, and the
\* comparison nests through forward and copy.  "T", "F" or "RecursionError".
dg_eq(h, a, b, fuel) ==
    IF fuel = 0 THEN "RecursionError"
    ELSE IF h[a].node_type # h[b].node_type THEN "F"
    ELSE IF Labels(h[a].arc_list) # Labels(h[b].arc_list) THEN "F"
    ELSE IF Labels(h[a].comp_arc_list) # Labels(h[b].comp_arc_list) THEN "F"
    ELSE LET ref_eq(x, y) ==
                 IF x = y THEN "T"
                 ELSE IF x = Null \/ y = Null THEN "F"
                 ELSE dg_eq(h, x, y, fuel - 1)
             fwd == ref_eq(h[a].forward, h[b].forward)
         IN IF fwd # "T" THEN fwd
            ELSE LET cpy == ref_eq(h[a].copy, h[b].copy)
                 IN IF cpy # "T" THEN cpy
                    ELSE IF h[a].generation # h[b].generation THEN "F"
                    ELSE IF h[a].name # h[b].name THEN "F"
                    ELSE "T"

RECURSIVE in_path(_, _, _, _)
\* `current in path`: identity first, then ==, element by element
in_path(h, current, path, i) ==
    IF i > Len(path) THEN "F"
    ELSE IF path[i] = current THEN "T"
    ELSE LET e == dg_eq(h, path[i], current, MaxDepth)
         IN IF e = "F" THEN in_path(h, current, path, i + 1) ELSE e

(* ------------------------------------------------------------ dereference *)
RECURSIVE deref_walk(_, _, _)
deref_walk(h, current, path) ==
    IF h[current].forward = Null
    THEN [status |-> "ok", node |-> current, path |-> path]
    ELSE LET chk == in_path(h, current, path, 1)
         IN IF chk = "T"
            THEN [status |-> "ValueError", node |-> current, path |-> path]
            ELSE IF chk = "RecursionError"
            THEN [status |-> "RecursionError", node |-> current, path |-> path]
            ELSE deref_walk(h, h[current].forward, Append(path, current))

\* follows forward whatever the node's generation is, then compresses the path
dereference(h, node) ==
    LET w == deref_walk(h, node, <<>>)
    IN [status |-> w.status,
        node   |-> w.node,
        heap   |-> IF w.status = "ok"
                   THEN [n \in DOMAIN h |->
                           IF n \in SeqSet(w.path)
                           THEN [h[n] EXCEPT !.forward = w.node] ELSE h[n]]
                   ELSE h]

(* ------------------------------------------------------------- unify_core *)
\* st = [heap, counter, status, log]; status "ok" stands for `return True`,
\* any other status is the exception that is propagating.  log records, in
\* order, what the call did: "recurse" (a recursive call for a label is
\* about to be made by the frame at `depth`), "comp" and "forward" (the
\* writes), "clash" (two leaves with different names were met).
Raise(st, exc) == [st EXCEPT !.status = exc]

Log(st, e) == [st EXCEPT !.log = Append(@, e)]

\* UnificationCounter.next_generation on the unifier's counter
next_generation(c) == c + 1

RECURSIVE ForwardEnds(_, _, _)
\* following forward from n reaches a node without forward within k steps
ForwardEnds(h, n, k) ==
    IF n = Null THEN TRUE
    ELSE IF k = 0 THEN FALSE
    ELSE ForwardEnds(h, h[n].forward, k - 1)

\* no cycle of forward pointers in the heap
Acyclic(h) == \A n \in DOMAIN h : ForwardEnds(h, n, Len(h))

\* dg1.forward = dg2; dg1.generation = next_generation().  The log entry
\* notes whether the write closed a cycle of forward pointers.
SetForward(st, dg1, dg2, depth) ==
    LET g  == next_generation(st.counter)
        h2 == [st.heap EXCEPT ![dg1].forward = dg2, ![dg1].generation = g]
    IN [Log(st, [ev |-> "forward", node |-> dg1, to |-> dg2, label |-> "",
                 depth |-> depth, cyc |-> ~Acyclic(h2)])
          EXCEPT !.heap = h2, !.counter = g]

\* the complement arcs appended to the node's arc_list instead
ExtendArcList(st, dg1, new_arcs, depth) ==
    [Log(st, [ev |-> "comp", node |-> dg1, to |-> Null, label |-> "",
              depth |-> depth])
       EXCEPT !.heap = [@ EXCEPT ![dg1].arc_list = @ \o new_arcs]]

\* dg1.comp_arc_list.extend(new_arcs)
ExtendComp(st, dg1, new_arcs, depth) ==
    [Log(st, [ev |-> "comp", node |-> dg1, to |-> Null, label |-> "",
              depth |-> depth])
       EXCEPT !.heap = [@ EXCEPT ![dg1].comp_arc_list = @ \o new_arcs]]

RECURSIVE unify_core(_, _, _, _)
RECURSIVE unify_shared(_, _, _, _, _)

\* the loop's continuation with a failure of the recursive call caught and
\* dropped
AfterRecursionSwallow(st2, dg1, shared_arcs, i, depth) ==
    unify_shared([st2 EXCEPT !.status =
                     IF @ = "UnificationFailure" THEN "ok" ELSE @],
                 dg1, shared_arcs, i + 1, depth)

\* what the loop does with the state a recursive call left: an exception
\* propagates, success goes on with the next shared arc
AfterRecursion(st2, dg1, shared_arcs, i, depth) ==
    IF st2.status # "ok" THEN st2
    ELSE unify_shared(st2, dg1, shared_arcs, i + 1, depth)

\* the for loop over shared_arcs of the complex/complex branch, from its
\* i-th arc on
unify_shared(st, dg1, shared_arcs, i, depth) ==
    IF i > Len(shared_arcs) THEN st
    ELSE LET arc  == shared_arcs[i]
             k    == find_arc(arc.label, st.heap[dg1].arc_list, 1)
         IN IF k = 0 THEN unify_shared(st, dg1, shared_arcs, i + 1, depth)
            ELSE LET arc1 == st.heap[dg1].arc_list[k]
                     st1  == Log(st, [ev |-> "recurse", node |-> dg1,
                                      to |-> Null, label |-> arc.label,
                                      depth |-> depth])
                 IN Only({AfterRecursion(st2, dg1, shared_arcs, i, depth) :
                            st2 \in {unify_core(st1, arc1.value, arc.value,
                                                depth + 1)}})

\* lines 178-182: the writes after the loop, unless an exception propagates
AfterLoop(s1, dg1, dg2, new_arcs, depth) ==
    IF s1.status # "ok" THEN s1
    ELSE SetForward(ExtendComp(s1, dg1, new_arcs, depth), dg1, dg2, depth)

\* the body of unify_core once both operands are dereferenced
unify_reps(s0, dg1, dg2, depth) ==
    LET h == s0.heap
    IN IF dg1 = dg2 THEN s0
       ELSE IF is_leaf_node(h, dg1) /\ is_leaf_node(h, dg2)
       THEN IF h[dg1].name = h[dg2].name THEN s0
            ELSE Raise(Log(s0, [ev |-> "clash", node |-> dg1, to |-> dg2,
                                label |-> "", depth |-> depth]),
                       "UnificationFailure")
       ELSE IF is_leaf_node(h, dg1) THEN SetForward(s0, dg1, dg2, depth)
       ELSE IF is_leaf_node(h, dg2) THEN SetForward(s0, dg2, dg1, depth)
       ELSE LET shared_arcs == intersect_arcs(h[dg1].arc_list, h[dg2].arc_list)
                new_arcs    == complement_arcs(h[dg2].arc_list, h[dg1].arc_list)
            IN IF shared_arcs = <<>>
               THEN SetForward(ExtendComp(s0, dg1, new_arcs, depth),
                               dg1, dg2, depth)
               ELSE Only({AfterLoop(s1, dg1, dg2, new_arcs, depth) :
                            s1 \in {unify_shared(s0, dg1, shared_arcs, 1, depth)}})

unify_core(st, node1, node2, depth) ==
    IF depth > MaxDepth THEN Raise(st, "RecursionError")
    ELSE
    LET r1 == dereference(st.heap, node1)
    IN IF r1.status # "ok" THEN Raise(st, r1.status)
    ELSE
    LET r2 == dereference(r1.heap, node2)
    IN IF r2.status # "ok" THEN Raise([st EXCEPT !.heap = r1.heap], r2.status)
    ELSE Only({unify_reps(s0, r1.node, r2.node, depth) :
                 s0 \in {[st EXCEPT !.heap = r2.heap]}})

(* ---------------------------------------------------- copy_with_comp_arcs *)
\* `node in self.shared_structures` hashes the node; DGNode is a dataclass
\* with eq and without a hash, so the membership test raises TypeError.
\* It is evaluated only when structure_sharing is set.
SharedLookupRaises(sharing) == sharing

\* the new node: arc_list then comp_arc_list, the same Arc objects (children
\* are not copied), scratch fields at their defaults
new_node(h, node) ==
    [node_type     |-> h[node].node_type,
     arc_list      |-> h[node].arc_list \o h[node].comp_arc_list,
     comp_arc_list |-> <<>>,
     forward       |-> Null,
     copy          |-> Null,
     generation    |-> 0,
     name          |-> h[node].name]

\* [status, heap, node]: the heap with the new node allocated at its end
copy_with_comp_arcs(h, sharing, node) ==
    IF SharedLookupRaises(sharing)
    THEN [status |-> "TypeError", heap |-> h, node |-> Null]
    ELSE [status |-> "ok", heap |-> Append(h, new_node(h, node)),
          node |-> Len(h) + 1]

(* ------------------------------------------------------------------ unify *)
\* outcome "node": a node is returned; "None": the failure indicator;
\* anything else: the exception that leaves unify
\* lines 211-216: what unify makes of the state unify_core left
unify_result(st, sharing, node1) ==
    IF st.status = "ok"
    THEN LET cp == copy_with_comp_arcs(st.heap, sharing, node1)
         IN [heap |-> cp.heap, counter |-> st.counter,
             outcome |-> IF cp.status = "ok" THEN "node" ELSE cp.status,
             result |-> cp.node, log |-> st.log]
    ELSE [heap |-> st.heap, counter |-> st.counter,
          outcome |-> IF st.status = "UnificationFailure" THEN "None"
                      ELSE st.status,
          result |-> Null, log |-> st.log]

unify(h, c, sharing, node1, node2) ==
    Only({unify_result(st, sharing, node1) :
            st \in {unify_core([heap |-> h, counter |-> c, status |-> "ok",
                                log |-> <<>>], node1, node2, 1)}})

(* ---------------------------------------------------------- state machine *)
Threads == 1..NThreads

\* an object whose counter attribute has not been assigned yet
Unset == -1

\* the singleton as one thread has constructed it, nobody inside the class
SingletonBuilt ==
    /\ objs = <<CounterInit>>
    /\ instance = 1
    /\ lock = Null
    /\ pc = [t \in Threads |-> "idle"]
    /\ self = [t \in Threads |-> Null]
    /\ tmp = [t \in Threads |-> 0]
    /\ got = [t \in Threads |-> Null]
    /\ rets = <<>>
    /\ ops = [t \in Threads |-> 0]

Init ==
    /\ scn \in 1..NScenarios
    /\ heap = Scenarios[scn]
    /\ counter = CounterInit
    /\ structure_sharing \in BOOLEAN
    /\ shared_structures = {}
    /\ calls = <<>>
    /\ SingletonBuilt

\* one top-level call unifier.unify(node1, node2) on two nodes of the heap
Unify(node1, node2) ==
    /\ Len(calls) < MaxCalls
    /\ \E r \in {unify(heap, counter, structure_sharing, node1, node2)} :
          /\ heap' = r.heap
          /\ counter' = r.counter
          /\ calls' = Append(calls, [n1 |-> node1, n2 |-> node2,
                                     outcome |-> r.outcome,
                                     result |-> r.result, log |-> r.log])
    /\ UNCHANGED <<structure_sharing, shared_structures, scn>>
    /\ UNCHANGED tvars

Next == \E node1 \in DOMAIN heap, node2 \in DOMAIN heap : Unify(node1, node2)

Spec == Init /\ [][Next]_vars

(* ------------------------------------------------------------ observation *)
NInputs == Len(Scenarios[scn])

Inputs == 1..NInputs

RECURSIVE Struct(_, _)
\* the graph under n read through arc_list, modulo arc order
Struct(h, n) ==
    IF h[n].node_type = LEAF THEN <<LEAF, h[n].name>>
    ELSE <<COMPLEX, {<<h[n].arc_list[i].label, Struct(h, h[n].arc_list[i].value)>> :
                        i \in 1..Len(h[n].arc_list)}>>

RECURSIVE Reach(_, _)
\* the nodes reachable from n through arc lists, n included
Reach(h, n) ==
    {n} \cup UNION {Reach(h, h[n].arc_list[i].value) : i \in 1..Len(h[n].arc_list)}

TypeOK ==
    /\ counter \in Nat
    /\ Len(calls) <= MaxCalls
    /\ \A n \in DOMAIN heap : heap[n].forward \in {Null} \cup DOMAIN heap

(* ------------------------------------------------------- claim vocabulary *)
\* the input graphs as constructed, before any call
H0 == Scenarios[scn]

NCalls == Len(calls)

Returned(c) == c.outcome \in {"node", "None"}

Succeeded(c) == c.outcome = "node"

BothComplex(c) == H0[c.n1].node_type = COMPLEX /\ H0[c.n2].node_type = COMPLEX

HasEvent(log, ev) == \E k \in 1..Len(log) : log[k].ev = ev

Distinct(s) == \A i, j \in 1..Len(s) : i # j => s[i] # s[j]

(* ---------------------------------------------------------------- C1 ---- *)
\* C1 (as claimed): after a first unify(x, y) on fresh inputs has returned,
\* a following unify(x, x) returns a node whose graph, read through
\* arc_list, equals x as it was constructed.
C1_InputPreservation ==
    (/\ NCalls = 2
     /\ Returned(calls[1])
     /\ calls[2].n1 = calls[1].n1
     /\ calls[2].n2 = calls[1].n1)
    => /\ Succeeded(calls[2])
       /\ Struct(heap, calls[2].result) = Struct(H0, calls[1].n1)

(* ---------------------------------------------------------------- C2 ---- *)
\* C2 (as claimed): unify of two leaves returns a leaf with the common name
\* when the names are equal and the failure indicator when they differ;
\* nothing else happens.
C2_LeafLeaf ==
    \A i \in 1..NCalls :
        LET c == calls[i]
        IN (c.n1 \in Inputs /\ c.n2 \in Inputs
            /\ H0[c.n1].node_type = LEAF /\ H0[c.n2].node_type = LEAF)
           => IF H0[c.n1].name = H0[c.n2].name
              THEN /\ Succeeded(c)
                   /\ heap[c.result].node_type = LEAF
                   /\ heap[c.result].name = H0[c.n1].name
              ELSE c.outcome = "None"

(* ---------------------------------------------------------------- C3 ---- *)
\* C3: a name clash between two leaves met anywhere in the recursion makes
\* the top-level unify return the failure indicator, and the clash is the
\* last thing the call did: no frame wrote a forward or appended complement
\* arcs after it.
C3_FailureSurfaces ==
    \A i \in 1..NCalls :
        LET log == calls[i].log
        IN HasEvent(log, "clash")
           => /\ calls[i].outcome = "None"
              /\ log[Len(log)].ev = "clash"
              /\ \A k \in 1..(Len(log) - 1) : log[k].ev # "clash"

\* a clash met two levels below the top frame, after an inner frame had
\* already appended complement arcs and set a forward
C3_Witness ==
    \E i \in 1..NCalls :
        LET log == calls[i].log
        IN /\ Len(log) >= 4
           /\ log[Len(log)].ev = "clash"
           /\ log[Len(log)].depth >= 3
           /\ HasEvent(log, "forward")
           /\ HasEvent(log, "comp")
           /\ calls[i].outcome = "None"

(* ---------------------------------------------------------------- C4 ---- *)
\* x's labels in x's order, then those labels of y that x lacks, in y's order
ExpectedLabels(x, y) ==
    LET InX(l) == l \in LabelSet(H0[x].arc_list)
        NotInX(l) == ~InX(l)
    IN Labels(H0[x].arc_list) \o SelectSeq(Labels(H0[y].arc_list), NotInX)

ChildUnder(h, n, label) == h[n].arc_list[find_arc(label, h[n].arc_list, 1)].value

\* C5 (as claimed): after a successful first unify(x, y) of complex nodes,
\* under every label that x and y share with complex children on both sides,
\* the result's child, read through arc_list, has the labels of both children.
C5_MergedAtDepth ==
    (NCalls >= 1 /\ BothComplex(calls[1]) /\ Succeeded(calls[1]))
    => LET x == calls[1].n1
           y == calls[1].n2
           r == calls[1].result
       IN \A f \in LabelSet(H0[x].arc_list) \cap LabelSet(H0[y].arc_list) :
             LET cx == ChildUnder(H0, x, f)
                 cy == ChildUnder(H0, y, f)
             IN (H0[cx].node_type = COMPLEX /\ H0[cy].node_type = COMPLEX)
                => LabelSet(heap[ChildUnder(heap, r, f)].arc_list)
                     = LabelSet(H0[cx].arc_list) \cup LabelSet(H0[cy].arc_list)

(* ---------------------------------------------------------------- C6 ---- *)
\* C6 (as claimed): the graph returned by a successful unify(x, y) has no
\* node in common with the graphs of x and y.
C6_NoSharedNode ==
    \A i \in 1..NCalls :
        Succeeded(calls[i])
        => Reach(heap, calls[i].result)
             \cap (Reach(heap, calls[i].n1) \cup Reach(heap, calls[i].n2)) = {}

(* ---------------------------------------------------------------- C7 ---- *)
\* C7 (as claimed): two successful calls return two distinct nodes that were
\* not there before, and the later result carries the features of the later
\* call's operands (every label of either complex operand).
C7_IndependentOutputs ==
    \A i, j \in 1..NCalls :
        (i < j /\ Succeeded(calls[i]) /\ Succeeded(calls[j]))
        => /\ calls[i].result # calls[j].result
           /\ calls[i].result \notin Inputs /\ calls[j].result \notin Inputs
           /\ (heap[calls[j].n1].node_type = COMPLEX
               /\ heap[calls[j].n2].node_type = COMPLEX)
              => LabelSet(heap[calls[j].result].arc_list)
                   = LabelSet(heap[calls[j].n1].arc_list)
                       \cup LabelSet(heap[calls[j].n2].arc_list)

(* ---------------------------------------------------------------- C8 ---- *)
\* unify(y, x) on a fresh copy of the inputs of the first call unify(x, y)
Mirror == unify(H0, CounterInit, structure_sharing, calls[1].n2, calls[1].n1)

\* C8 (as claimed): on fresh inputs unify(x, y) succeeds iff unify(y, x)
\* succeeds, and then the two results are equal modulo arc order.
C8_Commutative ==
    NCalls >= 1
    => \A m \in {Mirror} :
       /\ Succeeded(calls[1]) <=> Succeeded(m)
       /\ (Succeeded(calls[1]) /\ Succeeded(m))
          => Struct(heap, calls[1].result) = Struct(m.heap, m.result)

(* ---------------------------------------------------------------- C9 ---- *)
\* C9 (as claimed): every call returns a node or the failure indicator; no
\* exception leaves unify.
C9_NeverThrows == \A i \in 1..NCalls : Returned(calls[i])

(* --------------------------------------------------------------- C10 ---- *)
\* C10 (as claimed): every returned complex node has pairwise distinct labels
\* in its arc list, and no input node holds a label twice in comp_arc_list
\* or in both of its lists.
C10_ArcUniqueness ==
    /\ \A i \in 1..NCalls :
          Succeeded(calls[i]) => Distinct(Labels(heap[calls[i].result].arc_list))
    /\ \A n \in Inputs :
          /\ Distinct(Labels(heap[n].comp_arc_list))
          /\ LabelSet(heap[n].arc_list) \cap LabelSet(heap[n].comp_arc_list) = {}

(* --------------------------------------------------------------- C12 ---- *)
Rep(h, n) == deref_walk(h, n, <<>>).node

\* C12 (as claimed): scratch fields of earlier episodes are treated as
\* absent: between two top-level calls every input node dereferences to
\* itself.
C12_GenerationGate == \A n \in Inputs : Rep(heap, n) = n

(* --------------------------------------------------------------- C13 ---- *)
\* C13 (as claimed): forward pointers never form a cycle: not in the heap a
\* call leaves (whatever its outcome), and not right after any write of a
\* forward inside a call.
C13_ForwardAcyclic ==
    /\ Acyclic(heap)
    /\ \A i \in 1..NCalls : \A k \in 1..Len(calls[i].log) :
          calls[i].log[k].ev = "forward" => ~calls[i].log[k].cyc

(* --------------------------------------------------------------- C14 ---- *)
Written(log) ==
    {log[k].node : k \in {j \in 1..Len(log) : log[j].ev \in {"forward", "comp"}}}

\* C14 (as claimed): when a top-level unify has just returned success, every
\* node whose forward or comp_arc_list it wrote carries the counter's
\* current value as its generation.
C14_OneGenerationPerEpisode ==
    (NCalls >= 1 /\ Succeeded(calls[NCalls]))
    => \A n \in Written(calls[NCalls].log) : heap[n].generation = counter

(* --------------------------------------------------------------- C15 ---- *)
CoreSucceeded(c) == c.outcome \in {"node", "TypeError"}

\* C15 (as claimed): when the top-level unify_core(n1, n2) has returned
\* True, n1 and n2 dereference to the same node.
C15_CommonRepresentative ==
    (NCalls >= 1 /\ CoreSucceeded(calls[NCalls]))
    => Rep(heap, calls[NCalls].n1) = Rep(heap, calls[NCalls].n2)

(* --------------------------------------------------------------- C16 ---- *)
\* C16 (as claimed): the node a successful unify(n1, n2) returns has the
\* node type and the name of the representative of n1.
C16_CopyOfRepresentative ==
    (NCalls >= 1 /\ Succeeded(calls[NCalls]))
    => LET r == calls[NCalls].result
           d == Rep(heap, calls[NCalls].n1)
       IN /\ heap[r].node_type = heap[d].node_type
          /\ heap[r].name = heap[d].name

(* --------------------------------------------------------------- C17 ---- *)
\* C17 (as claimed): the recursive calls a frame makes for the shared labels
\* come in the order of those labels in the arc list of its d1.
C17_RecursionOrder ==
    \A i \in 1..NCalls :
        LET log == calls[i].log
        IN \A k, l \in 1..Len(log) :
              (/\ k < l
               /\ log[k].ev = "recurse" /\ log[l].ev = "recurse"
               /\ log[k].depth = 1 /\ log[l].depth = 1)
              => find_arc(log[k].label, heap[log[k].node].arc_list, 1)
                   < find_arc(log[l].label, heap[log[l].node].arc_list, 1)

(* --------------------------------------------------------------- C18 ---- *)
\* C18: after any sequence of calls every input node has the arc list
\* (length, labels, order, children), the node type and the name it was
\* constructed with.
C18_ArcListsNeverWritten ==
    \A n \in Inputs :
        /\ heap[n].arc_list = H0[n].arc_list
        /\ heap[n].node_type = H0[n].node_type
        /\ heap[n].name = H0[n].name

\* an input node was merged: it got complement arcs and a forward
C18_Witness ==
    \E n \in Inputs :
        /\ heap[n].comp_arc_list # <<>>
        /\ heap[n].forward # Null
        /\ heap[n].generation > CounterInit
        /\ heap[n].arc_list # <<>>

(* --------------------------------------------------------------- C19 ---- *)
\* C19 (as claimed): every top-level call terminates; the recursion of
\* unify_core never runs into the recursion limit.
C19_Terminates == \A i \in 1..NCalls : calls[i].outcome # "RecursionError"

(* ------------------------------------------- UnificationCounter, threaded *)
\* before the class has been instantiated; the unifier's state is not used
InitT ==
    /\ scn = 1
    /\ heap = Scenarios[scn]
    /\ counter = CounterInit
    /\ structure_sharing = TRUE
    /\ shared_structures = {}
    /\ calls = <<>>
    /\ objs = <<>>
    /\ instance = Null
    /\ lock = Null
    /\ pc = [t \in Threads |-> "idle"]
    /\ self = [t \in Threads |-> Null]
    /\ tmp = [t \in Threads |-> 0]
    /\ got = [t \in Threads |-> Null]
    /\ rets = <<>>
    /\ ops = [t \in Threads |-> 0]

Goto(t, label) == pc' = [pc EXCEPT ![t] = label]

\* a thread evaluates UnificationCounter()
CallNew(t) ==
    /\ pc[t] = "idle" /\ ops[t] < MaxOps
    /\ ops' = [ops EXCEPT ![t] = @ + 1]
    /\ Goto(t, "new_check1")
    /\ UNCHANGED <<objs, instance, lock, self, tmp, got, rets>>

\* line 53: if cls._instance is None (without the lock)
NewCheck1(t) ==
    /\ pc[t] = "new_check1"
    /\ Goto(t, IF instance = Null THEN "new_lock" ELSE "new_return")
    /\ UNCHANGED <<objs, instance, lock, self, tmp, got, rets, ops>>

\* line 54: with cls._lock
NewLock(t) ==
    /\ pc[t] = "new_lock" /\ lock = Null
    /\ lock' = t
    /\ Goto(t, "new_check2")
    /\ UNCHANGED <<objs, instance, self, tmp, got, rets, ops>>

\* line 55: if cls._instance is None (with the lock)
NewCheck2(t) ==
    /\ pc[t] = "new_check2"
    /\ Goto(t, IF instance = Null THEN "new_alloc" ELSE "new_unlock")
    /\ UNCHANGED <<objs, instance, lock, self, tmp, got, rets, ops>>

\* line 56: cls._instance = super().__new__(cls)
NewAlloc(t) ==
    /\ pc[t] = "new_alloc"
    /\ objs' = Append(objs, Unset)
    /\ instance' = Len(objs) + 1
    /\ Goto(t, "new_init")
    /\ UNCHANGED <<lock, self, tmp, got, rets, ops>>

\* line 57: cls._instance.counter = 10
NewInit(t) ==
    /\ pc[t] = "new_init"
    /\ objs' = [objs EXCEPT ![instance] = CounterInit]
    /\ Goto(t, "new_unlock")
    /\ UNCHANGED <<instance, lock, self, tmp, got, rets, ops>>

\* leaving the with block of __new__
NewUnlock(t) ==
    /\ pc[t] = "new_unlock"
    /\ lock' = Null
    /\ Goto(t, "new_return")
    /\ UNCHANGED <<objs, instance, self, tmp, got, rets, ops>>

\* line 58: return cls._instance
NewReturn(t) ==
    /\ pc[t] = "new_return"
    /\ got' = [got EXCEPT ![t] = instance]
    /\ Goto(t, "idle")
    /\ UNCHANGED <<objs, instance, lock, self, tmp, rets, ops>>

\* a thread calls next_generation() on the object it obtained
CallGen(t) ==
    /\ pc[t] = "idle" /\ ops[t] < MaxOps /\ got[t] # Null
    /\ ops' = [ops EXCEPT ![t] = @ + 1]
    /\ self' = [self EXCEPT ![t] = got[t]]
    /\ Goto(t, "gen_lock")
    /\ UNCHANGED <<objs, instance, lock, tmp, got, rets>>

\* next_generation entered without taking the lock
GenNoLock(t) ==
    /\ pc[t] = "gen_lock"
    /\ Goto(t, "gen_load")
    /\ UNCHANGED <<objs, instance, lock, self, tmp, got, rets, ops>>

\* line 61: with self._lock (the class lock)
GenLock(t) ==
    /\ pc[t] = "gen_lock" /\ lock = Null
    /\ lock' = t
    /\ Goto(t, "gen_load")
    /\ UNCHANGED <<objs, instance, self, tmp, got, rets, ops>>

\* line 62, the read of self.counter; AttributeError if it was never assigned
GenLoad(t) ==
    /\ pc[t] = "gen_load"
    /\ IF objs[self[t]] = Unset
       THEN /\ lock' = IF lock = t THEN Null ELSE lock
            /\ Goto(t, "AttributeError")
            /\ UNCHANGED tmp
       ELSE /\ tmp' = [tmp EXCEPT ![t] = objs[self[t]]]
            /\ Goto(t, "gen_store")
            /\ UNCHANGED lock
    /\ UNCHANGED <<objs, instance, self, got, rets, ops>>

\* line 62, the write self.counter = <value read> + 1
GenStore(t) ==
    /\ pc[t] = "gen_store"
    /\ objs' = [objs EXCEPT ![self[t]] = tmp[t] + 1]
    /\ Goto(t, "gen_return")
    /\ UNCHANGED <<instance, lock, self, tmp, got, rets, ops>>

\* line 63: return self.counter; rets notes the value the call found and the
\* value it returns
GenReturn(t) ==
    /\ pc[t] = "gen_return"
    /\ rets' = Append(rets, [thread |-> t, obj |-> self[t], prev |-> tmp[t],
                              val |-> objs[self[t]]])
    /\ Goto(t, "gen_unlock")
    /\ UNCHANGED <<objs, instance, lock, self, tmp, got, ops>>

\* leaving the with block of next_generation
GenUnlock(t) ==
    /\ pc[t] = "gen_unlock"
    /\ lock' = IF lock = t THEN Null ELSE lock
    /\ Goto(t, "idle")
    /\ UNCHANGED <<objs, instance, self, tmp, got, rets, ops>>

NextT ==
    \E t \in Threads :
        /\ \/ CallNew(t) \/ NewCheck1(t) \/ NewLock(t) \/ NewCheck2(t)
           \/ NewAlloc(t) \/ NewInit(t) \/ NewUnlock(t) \/ NewReturn(t)
           \/ CallGen(t) \/ GenLock(t) \/ GenLoad(t) \/ GenStore(t)
           \/ GenReturn(t) \/ GenUnlock(t)
        /\ UNCHANGED uvars

SpecT == InitT /\ [][NextT]_vars

(* --------------------------------------------------------------- C11 ---- *)
\* C11: every next_generation call returns the counter value it found plus
\* one and leaves that value stored or surpassed; the values returned, in the
\* order of return, increase strictly, so no two calls of any threads return
\* the same value and the counter never decreases.
C11_AtomicAdvance ==
    /\ \A i \in 1..Len(rets) :
          /\ rets[i].val = rets[i].prev + 1
          /\ objs[rets[i].obj] >= rets[i].val
    /\ \A i, j \in 1..Len(rets) : i < j => rets[i].val < rets[j].val
    /\ \A t \in Threads : pc[t] # "AttributeError"

\* two threads have both advanced the counter, one of them having waited
\* for the lock while the other was inside next_generation
C11_Witness ==
    /\ Len(rets) >= 2
    /\ \E i, j \in 1..Len(rets) : rets[i].thread # rets[j].thread
    /\ \E t \in Threads : pc[t] = "gen_lock" /\ lock \notin {Null, t}

(* --------------------------------------------------------------- C20 ---- *)
\* C20 (as claimed): all constructions yield the same instance, whose counter
\* is never set back, and no thread holds the instance before its counter
\* has been initialized.
C20_SingletonInit ==
    /\ Len(objs) <= 1
    /\ \A t \in Threads : got[t] # Null => got[t] = 1
    /\ \A i \in 1..Len(rets) : objs[rets[i].obj] >= rets[i].val
    /\ \A t \in Threads : got[t] # Null => objs[got[t]] # Unset

====
